---- MODULE Spec2Model ----
(***************************************************************************)
(* Model of the sample-data generator of openapi-to-http                   *)
(* (data-generator.ts): generateSampleData and the fallback generators     *)
(* generateSimpleSample, generateString, generateNumber, generateArray     *)
(* and generateObject.                                                     *)
(*                                                                         *)
(* Encodings                                                               *)
(*  - A schema node is a record that has exactly the fields the JavaScript *)
(*    object has; "f \in DOMAIN s" is "s.f !== undefined".                 *)
(*  - A JavaScript value is a tagged tuple: <<"null">>, <<"undefined">>,   *)
(*    <<"bool", b>>, <<"num", q>>, <<"str", s>>, <<"arr", seq>>,           *)
(*    <<"obj", [key |-> value]>>.                                          *)
(*  - A number is held in quarters: the integer q stands for q/4, so that  *)
(*    halves and the midpoint of two halves are exact.                     *)
(*  - Every generator is an operator that yields the SET of outcomes the   *)
(*    call can have (the draws of Math.random, the clock and the outcome   *)
(*    of the json-schema-faker library are not determined by the schema);  *)
(*    an outcome is <<"return", value>> or <<"throw", error>>.             *)
(***************************************************************************)
EXTENDS Integers, Sequences, FiniteSets, TLC

\* data-generator.ts: the schema node, the function called on it and its outcome
VARIABLES schema, called, jsf, outcome
\* http-generator.ts: the parsed document, the result of getOperations and of generateHttpFile
VARIABLES document, operations, content

\* extension.ts: the active editor, what SwaggerParser does with its file, the position of
\* the command handler, its openApiSpec and fileName, and what the user has been shown
VARIABLES editor, library, pc, openApiSpec, fileName, log
\* the calls of generateSampleData in progress on the schema tree root
VARIABLES root, stack, status

generatorVars == <<schema, called, jsf, outcome>>
httpVars == <<document, operations, content>>
commandVars == <<editor, library, pc, openApiSpec, fileName, log>>
stackVars == <<root, stack, status>>
vars == <<generatorVars, httpVars, commandVars, stackVars>>

(***************************************************************************)
(* Bounds of the checked input space.                                      *)
(***************************************************************************)
\* minimum, maximum and the exclusive bounds range over the halves -1, -1/2, ..., MaxNum/2
MaxNum == 2
\* multipleOf ranges over the halves 0, 1/2, ..., MaxMult/2
MaxMult == 3
\* minLength and maxLength range over 0..MaxLen
MaxLen == 8
\* minItems and maxItems range over 0..MaxItems
MaxItems == 3

(***************************************************************************)
(* Numbers in quarters.                                                    *)
(***************************************************************************)
Whole(n) == 4 * n
Half(n) == 2 * n
IsWhole(q) == q % 4 = 0

\* floor(a / b) for b # 0
FloorDiv(a, b) == IF b > 0 THEN a \div b ELSE (-a) \div (-b)

\* Math.round(value / multipleOf), a plain integer: floor(v/m + 1/2)
RoundQuotient(v, m) == FloorDiv(2 * v + m, 2 * m)

\* Math.round(value), in quarters: floor(v + 1/2)
MathRound(v) == 4 * FloorDiv(v + 2, 4)

Min(a, b) == IF a < b THEN a ELSE b
Max(a, b) == IF a > b THEN a ELSE b

(***************************************************************************)
(* JavaScript values and outcomes.                                         *)
(***************************************************************************)
Null == <<"null">>
Bool(b) == <<"bool", b>>
Num(q) == <<"num", q>>
Str(s) == <<"str", s>>
Arr(seq) == <<"arr", seq>>
Obj(f) == <<"obj", f>>

Return(v) == <<"return", v>>
Throw(e) == <<"throw", e>>
Returned(o) == o[1] = "return"
Thrown(o) == o[1] = "throw"

Has(s, f) == f \in DOMAIN s

\* ToBoolean of a JavaScript value
Truthy(v) ==
    CASE v[1] = "null" -> FALSE
      [] v[1] = "undefined" -> FALSE
      [] v[1] = "bool" -> v[2]
      [] v[1] = "num" -> v[2] # 0
      [] v[1] = "str" -> v[2] # ""
      [] OTHER -> TRUE

\* v.length > 0: only arrays and strings have a length
HasPositiveLength(v) ==
    CASE v[1] = "arr" -> Len(v[2]) > 0
      [] v[1] = "str" -> Len(v[2]) > 0
      [] OTHER -> FALSE

\* v[0] of a value with a positive length
FirstElement(v) ==
    IF v[1] = "arr" THEN v[2][1] ELSE Str(SubSeq(v[2], 1, 1))

\* schema.enum && schema.enum.length > 0
HasEnum(s) == Has(s, "enum") /\ Truthy(s.enum) /\ HasPositiveLength(s.enum)

(***************************************************************************)
(* Constants of data-generator.ts.                                         *)
(***************************************************************************)
DefaultMinLength == 3
DefaultMaxLength == 10
PreferredLength == 5
DefaultMinItems == 1
DefaultMaxItems == 3
PreferredItems == 2
DefaultMinimum == 0
DefaultMaximum == 100
BaseWord == "example"
PatternPlaceholder == "string-matching-pattern"
RefId == 1

\* the instants new Date() can yield, as <<date part, time part>> of toISOString()
Instants == { <<"2025-11-26", "10:30:00.000Z">>, <<"2026-01-01", "00:00:00.000Z">> }

ToISOString(now) == now[1] \o "T" \o now[2]

\* toISOString().split("T")[0]
IsoDate(now) == now[1]

RECURSIVE Repeat(_, _)
Repeat(ch, n) == IF n <= 0 THEN "" ELSE ch \o Repeat(ch, n - 1)

\* String.prototype.padEnd(targetLength, padString) for a one-character padString
PadEnd(str, targetLength, ch) ==
    IF targetLength <= Len(str) THEN str ELSE str \o Repeat(ch, targetLength - Len(str))

\* String.prototype.substring(0, end)
Substring0(str, end) == SubSeq(str, 1, Min(Max(end, 0), Len(str)))

\* the literal generateString returns for a recognized format
FormatLiterals(format) ==
    CASE format = "date" -> { IsoDate(now) : now \in Instants }
      [] format = "date-time" -> { ToISOString(now) : now \in Instants }
      [] format = "email" -> { "user@example.com" }
      [] format \in {"uri", "url"} -> { "https://example.com" }
      [] format = "uuid" -> { "123e4567-e89b-12d3-a456-426614174000" }
      [] format = "ipv4" -> { "192.168.1.1" }
      [] format = "ipv6" -> { "2001:0db8:85a3:0000:0000:8a2e:0370:7334" }
      [] OTHER -> {}

\* x || d for a numeric field x
OrDefault(s, f, d) == IF Has(s, f) /\ s[f] # 0 THEN s[f] ELSE d

\* the length generateString computes from minLength and maxLength
StringLength(s) ==
    LET minLength == OrDefault(s, "minLength", DefaultMinLength)
        maxLength == OrDefault(s, "maxLength", DefaultMaxLength)
    IN  Min(maxLength, Max(minLength, PreferredLength))

\* a string rule that looks at pattern before format
generateStringPatternFirst(s) ==
    IF HasEnum(s) THEN { Return(FirstElement(s.enum)) }
    ELSE IF Has(s, "pattern") /\ s.pattern # ""
    THEN { Return(Str(PatternPlaceholder)) }
    ELSE IF Has(s, "format") /\ s.format # "" /\ FormatLiterals(s.format) # {}
    THEN { Return(Str(lit)) : lit \in FormatLiterals(s.format) }
    ELSE LET length == StringLength(s)
         IN  { Return(Str(Substring0(PadEnd(BaseWord, length, "x"), length))) }

generateString(s) ==
    IF HasEnum(s) THEN { Return(FirstElement(s.enum)) }
    ELSE IF Has(s, "format") /\ s.format # "" /\ FormatLiterals(s.format) # {}
    THEN { Return(Str(lit)) : lit \in FormatLiterals(s.format) }
    ELSE IF Has(s, "pattern") /\ s.pattern # ""
    THEN { Return(Str(PatternPlaceholder)) }
    ELSE LET length == StringLength(s)
         IN  { Return(Str(Substring0(PadEnd(BaseWord, length, "x"), length))) }

(***************************************************************************)
(* generateNumber.  The numeric fields are in quarters; minimum and        *)
(* maximum are halves, so the midpoint is exact.                           *)
(***************************************************************************)
\* a ?? b ?? d
Coalesce(s, f, g, d) == IF Has(s, f) THEN s[f] ELSE IF Has(s, g) THEN s[g] ELSE d

Midpoint(s) ==
    LET minimum == Coalesce(s, "minimum", "exclusiveMinimum", Whole(DefaultMinimum))
        maximum == Coalesce(s, "maximum", "exclusiveMaximum", Whole(DefaultMaximum))
    IN  minimum + (maximum - minimum) \div 2

AfterExclusiveMinimum(s, value) ==
    IF Has(s, "exclusiveMinimum") /\ value <= s.exclusiveMinimum
    THEN s.exclusiveMinimum + Whole(1) ELSE value

AfterExclusiveMaximum(s, value) ==
    IF Has(s, "exclusiveMaximum") /\ value >= s.exclusiveMaximum
    THEN s.exclusiveMaximum - Whole(1) ELSE value

AfterMultipleOf(s, value) ==
    IF Has(s, "multipleOf") /\ s.multipleOf # 0
    THEN RoundQuotient(value, s.multipleOf) * s.multipleOf ELSE value

\* generateNumber without its rounding for type integer
AfterIntegerRoundingSkipped(s, value) == value

AfterIntegerRounding(s, value) ==
    IF s.type = "integer" THEN MathRound(value) ELSE value

NumberValue(s) ==
    AfterIntegerRounding(s,
        AfterMultipleOf(s,
            AfterExclusiveMaximum(s,
                AfterExclusiveMinimum(s, Midpoint(s)))))

generateNumber(s) ==
    IF HasEnum(s) THEN { Return(FirstElement(s.enum)) }
    ELSE { Return(Num(NumberValue(s))) }

(***************************************************************************)
(* The recursive generators.  The absent node (null or undefined) is the   *)
(* record NullNode.                                                        *)
(***************************************************************************)
NullNode == [absent |-> TRUE]

\* !schema
IsAbsent(node) == Has(node, "absent")

ReturnedValues(outcomes) == { o[2] : o \in { x \in outcomes : Returned(x) } }
Throws(outcomes) == { o \in outcomes : Thrown(o) }

\* what jsf.generate(schema) of the json-schema-faker library can yield
JsfValues == { Str("lorem"), Bool(FALSE) }

\* the outcomes of jsf.generate(schema): a value of the library's choice, or an exception
JsfOutcomes == { Throw("Error") } \cup { Return(v) : v \in JsfValues }

RECURSIVE SplitLast(_, _)
\* parts[parts.length - 1] of str.split("/"): the text after the last "/"
SplitLast(str, i) ==
    IF i = 0 THEN str
    ELSE IF SubSeq(str, i, i) = "/" THEN SubSeq(str, i + 1, Len(str))
    ELSE SplitLast(str, i - 1)

\* ref.split is a function only when ref is a string
generateSampleFromRef(ref) ==
    IF ref[1] = "str"
    THEN { Return(Obj([id |-> Num(Whole(RefId)), name |-> Str(SplitLast(ref[2], Len(ref[2])))])) }
    ELSE { Throw("TypeError") }

RECURSIVE generateSampleData(_)

\* the itemCount generateArray computes from minItems and maxItems
ItemCount(s) ==
    LET minItems == OrDefault(s, "minItems", DefaultMinItems)
        maxItems == OrDefault(s, "maxItems", DefaultMaxItems)
    IN  Min(maxItems, Max(minItems, PreferredItems))

generateArray(s) ==
    IF Has(s, "items") /\ ItemCount(s) > 0
    THEN LET each == generateSampleData(s.items)
         IN  { Return(Arr(seq)) : seq \in [1..ItemCount(s) -> ReturnedValues(each)] }
             \cup Throws(each)
    ELSE { Return(Arr(<<>>)) }

\* schema.required || []
RequiredOrEmpty(s) ==
    IF Has(s, "required") /\ Truthy(s.required) THEN s.required ELSE Arr(<<>>)

\* required.includes is a function only when required is an array or a string
IncludesThrows(required) == required[1] \notin {"arr", "str"}

\* required.includes(propName): membership of an array, containment in a string
Includes(required, propName) ==
    IF required[1] = "arr"
    THEN \E i \in 1..Len(required[2]) : required[2][i] = Str(propName)
    ELSE \E i \in 1..Len(required[2]) : \E j \in i..Len(required[2]) :
            SubSeq(required[2], i, j) = propName

\* a loop that leaves every property to the draw
RequiredNamesIgnored(s) == {}

\* the properties the loop must include
RequiredNames(s) ==
    { p \in DOMAIN s.properties : Includes(RequiredOrEmpty(s), p) }

\* the declared properties of the result: every required property, and each
\* other property when its draw of Math.random() exceeds 0.3
DeclaredPart(s) ==
    IF ~Has(s, "properties") THEN { Return(<<>>) }
    ELSE IF DOMAIN s.properties # {} /\ IncludesThrows(RequiredOrEmpty(s))
    THEN { Throw("TypeError") }
    ELSE LET names == DOMAIN s.properties
             gen == [p \in names |-> generateSampleData(s.properties[p])]
             vals == UNION { ReturnedValues(gen[p]) : p \in names }
         IN  UNION { { Return(f) : f \in { g \in [included -> vals] :
                                  \A p \in included : g[p] \in ReturnedValues(gen[p]) } }
                     \cup UNION { Throws(gen[p]) : p \in included }
                   : included \in { k \in SUBSET names : RequiredNames(s) \subseteq k } }

\* obj.additionalProperty = ...: the results of the additionalProperties step on obj
AdditionalPart(s, obj) ==
    IF ~Has(s, "additionalProperties") THEN { Return(Obj(obj)) }
    ELSE IF s.additionalProperties = <<"bool", TRUE>>
    THEN { Return(Obj(("additionalProperty" :> Str("value")) @@ obj)) }
    ELSE IF s.additionalProperties[1] = "schema"
    THEN LET extra == generateSampleData(s.additionalProperties[2])
         IN  { Return(Obj(("additionalProperty" :> v) @@ obj)) : v \in ReturnedValues(extra) }
             \cup Throws(extra)
    ELSE IF s.additionalProperties = Null
    THEN { Return(Obj(("additionalProperty" :> Null) @@ obj)) }
    ELSE { Return(Obj(obj)) }

generateObject(s) ==
    LET declared == DeclaredPart(s)
    IN  Throws(declared)
        \cup UNION { AdditionalPart(s, obj) : obj \in ReturnedValues(declared) }

\* a fallback that takes a node without type for a string schema
generateSimpleSampleDefaultString(s) ==
    IF ~Has(s, "type") \/ s.type = "string" THEN generateString(s)
    ELSE CASE s.type \in {"number", "integer"} -> generateNumber(s)
           [] s.type = "boolean" -> { Return(Bool(TRUE)) }
           [] s.type = "array" -> generateArray(s)
           [] s.type = "object" -> generateObject(s)
           [] OTHER -> { Return(Null) }

generateSimpleSample(s) ==
    IF ~Has(s, "type") \/ s.type = "" THEN { Return(Null) }
    ELSE CASE s.type = "string" -> generateString(s)
           [] s.type \in {"number", "integer"} -> generateNumber(s)
           [] s.type = "boolean" -> { Return(Bool(TRUE)) }
           [] s.type = "array" -> generateArray(s)
           [] s.type = "object" -> generateObject(s)
           [] OTHER -> { Return(Null) }

\* a dispatch that takes a node with a reference for a node without one
DispatchReferenceIgnored(node) ==
    IF IsAbsent(node) THEN "absent"
    ELSE IF Has(node, "example") THEN "example"
    ELSE IF Has(node, "examples") /\ node.examples[1] = "arr" /\ Len(node.examples[2]) > 0
    THEN "examples"
    ELSE "generate"

\* a dispatch that looks at example before $ref
DispatchExampleFirst(node) ==
    IF IsAbsent(node) THEN "absent"
    ELSE IF Has(node, "example") THEN "example"
    ELSE IF Has(node, "ref") /\ Truthy(node.ref) THEN "ref"
    ELSE IF Has(node, "examples") /\ node.examples[1] = "arr" /\ Len(node.examples[2]) > 0
    THEN "examples"
    ELSE "generate"

\* the branch of generateSampleData the node takes before jsf.generate is tried
Dispatch(node) ==
    IF IsAbsent(node) THEN "absent"
    ELSE IF Has(node, "ref") /\ Truthy(node.ref) THEN "ref"
    ELSE IF Has(node, "example") THEN "example"
    ELSE IF Has(node, "examples") /\ node.examples[1] = "arr" /\ Len(node.examples[2]) > 0
    THEN "examples"
    ELSE "generate"

\* generateSampleData when jsf.generate(schema), if it is reached, has the outcome j
generateSampleDataWith(node, j) ==
    CASE Dispatch(node) = "absent" -> { Return(Null) }
      [] Dispatch(node) = "ref" -> generateSampleFromRef(node.ref)
      [] Dispatch(node) = "example" -> { Return(node.example) }
      [] Dispatch(node) = "examples" -> { Return(node.examples[2][1]) }
      [] OTHER -> IF Returned(j) THEN { j } ELSE generateSimpleSample(node)

generateSampleData(node) ==
    UNION { generateSampleDataWith(node, j) : j \in JsfOutcomes }

(***************************************************************************)
(* The schema nodes the generators are applied to.                         *)
(***************************************************************************)
\* the nodes of S, and each of them with the field f set to a value of V
WithOpt(S, f, V) == S \cup { (f :> v) @@ s : s \in S, v \in V }

NumInputs == { Half(k) : k \in -2..MaxNum }
MultInputs == { Half(k) : k \in 0..MaxMult }

NumberSchemas ==
    WithOpt(WithOpt(WithOpt(WithOpt(WithOpt(
        { [type |-> t] : t \in {"number", "integer"} },
        "minimum", NumInputs), "maximum", NumInputs),
        "exclusiveMinimum", NumInputs), "exclusiveMaximum", NumInputs),
        "multipleOf", MultInputs)

Formats ==
    { "", "date", "date-time", "email", "uri", "url", "uuid", "ipv4", "ipv6", "binary" }

StringSchemas ==
    WithOpt(WithOpt(WithOpt(WithOpt(
        { [type |-> "string"] },
        "minLength", 0..MaxLen), "maxLength", 0..MaxLen),
        "format", Formats), "pattern", { "", "^[a-z]+$" })

\* schema nodes without nested nodes, used as items and as property schemas
Leaves ==
    { [type |-> "string"],
      [type |-> "integer", minimum |-> Whole(1), maximum |-> Whole(2)],
      [type |-> "boolean", example |-> Bool(FALSE)],
      [ref |-> Str("#/components/schemas/Pet")],
      [ref |-> Num(Whole(5))] }

ArraySchemas ==
    WithOpt(WithOpt(WithOpt(
        { [type |-> "array"] },
        "minItems", 0..MaxItems), "maxItems", 0..MaxItems),
        "items", Leaves)

PropNames == { "username", "email" }

PropertyMaps ==
    UNION { [names -> { l \in Leaves : Has(l, "type") \/ l.ref[1] # "str" }]
            : names \in SUBSET PropNames }

Requireds ==
    { Arr(<<>>), Arr(<<Str("username")>>), Arr(<<Str("username"), Str("email")>>),
      Arr(<<Str("id")>>), Str("username,email"), Num(Whole(0)), Num(Whole(5)) }

ObjectSchemas ==
    WithOpt(WithOpt(WithOpt(
        { [type |-> "object"] },
        "properties", PropertyMaps), "required", Requireds),
        "additionalProperties",
        { Bool(TRUE), Bool(FALSE), Null, <<"schema", [type |-> "string"]>>,
          <<"schema", [ref |-> Num(Whole(5))]>> })

Kinds == { "string", "number", "integer", "boolean", "array", "object" }

Enums ==
    { Arr(<<>>), Arr(<<Str("x"), Str("y"), Str("z")>>),
      Arr(<<Num(Half(3)), Num(Whole(2))>>), Arr(<<Bool(FALSE), Bool(TRUE)>>),
      Str("xyz"), Num(Whole(7)) }

EnumSchemas ==
    WithOpt(WithOpt(WithOpt(
        { [enum |-> e] : e \in Enums },
        "type", Kinds \cup { "file" }), "minimum", { Whole(1) }), "format", { "email" })

TypelessSchemas ==
    WithOpt(WithOpt(WithOpt(WithOpt(WithOpt(
        { [description |-> "no type"] },
        "properties", { [username |-> [type |-> "string"]] }),
        "items", { [type |-> "string"] }), "format", { "email" }),
        "minimum", { Whole(1) }), "minLength", { 1 })

DispatchSchemas ==
    WithOpt(WithOpt(WithOpt(WithOpt(WithOpt(
        { [description |-> "dispatch"] },
        "ref", { Str(""), Str("Pet"), Str("#/components/schemas/Pet"), Num(Whole(5)) }),
        "example", { Num(Whole(42)), Num(0), Bool(FALSE), Str(""), Null }),
        "examples", { Arr(<<>>), Arr(<<Str("first"), Str("second")>>), Str("ab") }),
        "type", { "string", "integer", "boolean" }),
        "enum", { Arr(<<Str("x"), Str("y"), Str("z")>>) })

NestedSchemas ==
    { [type |-> "array", items |-> [type |-> "array", items |-> [type |-> "string"]]],
      [type |-> "array", items |-> [type |-> "object",
                                    properties |-> [username |-> [type |-> "string"]],
                                    required |-> Arr(<<Str("username")>>)]],
      [type |-> "object",
       properties |-> [username |-> [type |-> "array", items |-> [type |-> "boolean"]],
                       email |-> [type |-> "object", required |-> Num(Whole(5)),
                                  properties |-> [username |-> [type |-> "string"]]]],
       required |-> Arr(<<Str("username")>>)] }

\* object schemas that declare a property under the name generateObject adds
CollidingSchemas ==
    WithOpt(WithOpt(
        { [type |-> "object", properties |-> m]
          : m \in { [additionalProperty |-> [type |-> "integer", minimum |-> Whole(1),
                                                               maximum |-> Whole(2)]],
                    [additionalProperty |-> [type |-> "string"],
                     username |-> [type |-> "string"]] } },
        "required", { Arr(<<Str("additionalProperty")>>) }),
        "additionalProperties",
        { Bool(TRUE), Bool(FALSE), <<"schema", [type |-> "string"]>> })

Schemas ==
    { NullNode } \cup NumberSchemas \cup StringSchemas \cup ArraySchemas \cup ObjectSchemas
    \cup EnumSchemas \cup TypelessSchemas \cup DispatchSchemas \cup NestedSchemas
    \cup CollidingSchemas

(***************************************************************************)
(* The state machine: one schema node and one call made on it.  The        *)
(* generators keep no state between calls, so a repeated generation on the *)
(* same node is another behaviour from the same initial state.             *)
(***************************************************************************)
NoOutcome == <<"none">>

\* no call of the data generator is under observation
GeneratorIdle ==
    /\ schema = NullNode
    /\ called = "idle"
    /\ jsf = "notcalled"
    /\ outcome = NoOutcome

\* no document is under observation
HttpIdle ==
    /\ document = NullNode
    /\ operations = NoOutcome
    /\ content = NoOutcome

\* the command is not under observation
CommandIdle ==
    /\ editor = Null
    /\ library = NoOutcome
    /\ pc = "idle"
    /\ openApiSpec = NoOutcome
    /\ fileName = NoOutcome
    /\ log = <<>>

\* no schema tree is under observation
StackIdle ==
    /\ root = NullNode
    /\ stack = <<>>
    /\ status = "idle"

Init ==
    /\ schema \in Schemas
    /\ called = "none"
    /\ jsf = "notcalled"
    /\ outcome = NoOutcome
    /\ HttpIdle
    /\ CommandIdle
    /\ StackIdle

\* a caller applies generateSampleData to the node
GenerateSampleData ==
    /\ called = "none"
    /\ \E j \in JsfOutcomes :
        \E o \in generateSampleDataWith(schema, j) :
            /\ called' = "generateSampleData"
            /\ jsf' = IF Dispatch(schema) # "generate" THEN "notcalled"
                      ELSE IF Returned(j) THEN "returned" ELSE "threw"
            /\ outcome' = o
            /\ UNCHANGED <<schema, httpVars, commandVars, stackVars>>

\* the catch clause of generateSampleData applies the rule name, with these outcomes
Fallback(name, outcomes) ==
    /\ called = "none"
    /\ Dispatch(schema) = "generate"
    /\ \E o \in outcomes :
        /\ called' = name
        /\ jsf' = "threw"
        /\ outcome' = o
        /\ UNCHANGED <<schema, httpVars, commandVars, stackVars>>

GenerateSimpleSample == Fallback("generateSimpleSample", generateSimpleSample(schema))

GenerateString ==
    /\ Has(schema, "type") /\ schema.type = "string"
    /\ Fallback("generateString", generateString(schema))

GenerateNumber ==
    /\ Has(schema, "type") /\ schema.type \in {"number", "integer"}
    /\ Fallback("generateNumber", generateNumber(schema))

GenerateArray ==
    /\ Has(schema, "type") /\ schema.type = "array"
    /\ Fallback("generateArray", generateArray(schema))

GenerateObject ==
    /\ Has(schema, "type") /\ schema.type = "object"
    /\ Fallback("generateObject", generateObject(schema))

Next ==
    \/ GenerateSampleData
    \/ GenerateSimpleSample
    \/ GenerateString
    \/ GenerateNumber
    \/ GenerateArray
    \/ GenerateObject

Spec == Init /\ [][Next]_vars

(***************************************************************************)
(* Vocabulary of the properties.                                           *)
(***************************************************************************)
Value(o) == o[2]
IsNum(v) == v[1] = "num"
IsStr(v) == v[1] = "str"
IsArr(v) == v[1] = "arr"
IsObj(v) == v[1] = "obj"
Keys(v) == DOMAIN v[2]

\* clamp(x, lo, hi) = min(hi, max(lo, x))
Clamp(x, lo, hi) == Min(hi, Max(lo, x))

\* f ?? d
FieldOr(s, f, d) == IF Has(s, f) THEN s[f] ELSE d

\* the node has none of the fields that short-circuit generateSampleData
NoShortCircuit(s) ==
    ~IsAbsent(s) /\ ~Has(s, "ref") /\ ~Has(s, "example") /\ ~Has(s, "examples")

NonEmptyArray(v) == IsArr(v) /\ Len(v[2]) > 0

(***************************************************************************)
(* C1: generateSampleData never raises to its caller, whatever the schema  *)
(* (malformed $ref, required or enum included), and neither does the       *)
(* simplified generator generateSimpleSample it falls back to.             *)
(***************************************************************************)
C1_NeverRaises ==
    called \in { "generateSampleData", "generateSimpleSample" } => Returned(outcome)

\* n is the last "/"-separated segment of r
IsLastSegment(n, r) ==
    /\ Len(n) <= Len(r)
    /\ \A i \in 1..Len(n) : SubSeq(n, i, i) # "/"
    /\ SubSeq(r, Len(r) - Len(n) + 1, Len(r)) = n
    /\ Len(n) < Len(r) => SubSeq(r, Len(r) - Len(n), Len(r) - Len(n)) = "/"

\* o returns the placeholder { id: 1, name: <last segment of ref> }
IsPlaceholder(o, ref) ==
    /\ Returned(o)
    /\ IsObj(Value(o))
    /\ Keys(Value(o)) = { "id", "name" }
    /\ Value(o)[2]["id"] = Num(Whole(1))
    /\ IsStr(Value(o)[2]["name"])
    /\ IsLastSegment(Value(o)[2]["name"][2], ref[2])

\* steps 3 to 5 of the dispatch, for a node that is not taken as a reference
ExampleSteps ==
    IF Has(schema, "example")
    THEN outcome = Return(schema.example) /\ jsf = "notcalled"
    ELSE IF Has(schema, "examples") /\ NonEmptyArray(schema.examples)
    THEN outcome = Return(schema.examples[2][1]) /\ jsf = "notcalled"
    ELSE jsf # "notcalled"

(***************************************************************************)
(* C2 as claimed: generateSampleData dispatches first-match-wins: absent   *)
(* node -> null; node with a reference (any string) -> the placeholder,    *)
(* even when example/examples are present; node with an example -> the     *)
(* example verbatim; node with a non-empty examples array -> its first     *)
(* element; only otherwise is jsf.generate attempted.                      *)
(***************************************************************************)
C2_DispatchAnyReference ==
    called = "generateSampleData" =>
        IF IsAbsent(schema) THEN outcome = Return(Null) /\ jsf = "notcalled"
        ELSE IF Has(schema, "ref")
        THEN IsStr(schema.ref) => IsPlaceholder(outcome, schema.ref) /\ jsf = "notcalled"
        ELSE ExampleSteps

(***************************************************************************)
(* C2 as amended: the same dispatch, where step 2 applies to a node with   *)
(* a non-empty reference string; a node whose reference is the empty       *)
(* string is dispatched as a node without a reference.                     *)
(***************************************************************************)
C2_DispatchOrder ==
    called = "generateSampleData" =>
        IF IsAbsent(schema) THEN outcome = Return(Null) /\ jsf = "notcalled"
        ELSE IF Has(schema, "ref") /\ schema.ref # Str("")
        THEN IsStr(schema.ref) => IsPlaceholder(outcome, schema.ref) /\ jsf = "notcalled"
        ELSE ExampleSteps

\* a reference node that also carries a falsy example yields the placeholder
C2_Witness ==
    /\ called = "generateSampleData"
    /\ Has(schema, "ref") /\ schema.ref = Str("#/components/schemas/Pet")
    /\ Has(schema, "example") /\ schema.example = Num(0)
    /\ Has(schema, "examples")
    /\ outcome = Return(Obj([id |-> Num(Whole(1)), name |-> Str("Pet")]))

\* the number q (in quarters) meets every constraint the schema declares
Meets(s, q) ==
    /\ s.type = "integer" => IsWhole(q)
    /\ Has(s, "minimum") => s.minimum <= q
    /\ Has(s, "maximum") => q <= s.maximum
    /\ Has(s, "exclusiveMinimum") => s.exclusiveMinimum < q
    /\ Has(s, "exclusiveMaximum") => q < s.exclusiveMaximum
    /\ (Has(s, "multipleOf") /\ s.multipleOf > 0) => q % s.multipleOf = 0

\* the constraints of the schema are not contradictory: some number meets them all
Satisfiable(s) == \E q \in Whole(-4)..Whole(8) : Meets(s, q)

(***************************************************************************)
(* C3: for a number or integer schema without enum, with minimum = lo and  *)
(* maximum = hi, lo <= hi, the value of generateNumber is within [lo, hi], *)
(* whatever exclusiveMinimum, exclusiveMaximum, multipleOf and type are.   *)
(* Stated here for the schemas whose constraints some number meets, where  *)
(* the behaviour is not left open.                                         *)
(***************************************************************************)
C3_WithinMinMax ==
    ( /\ called = "generateNumber"
      /\ Returned(outcome)
      /\ ~HasEnum(schema)
      /\ Has(schema, "minimum") /\ Has(schema, "maximum")
      /\ schema.minimum <= schema.maximum
      /\ Satisfiable(schema) )
    => /\ IsNum(Value(outcome))
       /\ schema.minimum <= Value(outcome)[2]
       /\ Value(outcome)[2] <= schema.maximum

\* the string schema has neither a recognized format nor a pattern
PlainString(s) ==
    /\ ~Has(s, "pattern")
    /\ Has(s, "format") => s.format \notin
          { "date", "date-time", "email", "uri", "url", "uuid", "ipv4", "ipv6" }

(***************************************************************************)
(* C4: for a string schema without enum, recognized format or pattern,     *)
(* the string of generateString has length exactly                         *)
(* clamp(5, minLength ?? 3, maxLength ?? 10), a bound of 0 being a bound;  *)
(* so with 0 <= minLength <= maxLength it is within [minLength, maxLength].*)
(***************************************************************************)
C4_StringLengthClamped ==
    ( /\ called = "generateString"
      /\ Returned(outcome)
      /\ ~HasEnum(schema)
      /\ PlainString(schema)
      /\ FieldOr(schema, "minLength", 3) <= FieldOr(schema, "maxLength", 10) )
    => /\ IsStr(Value(outcome))
       /\ Len(Value(outcome)[2])
            = Clamp(5, FieldOr(schema, "minLength", 3), FieldOr(schema, "maxLength", 10))

(***************************************************************************)
(* C5: for an array schema with items, the array of generateArray has      *)
(* length exactly clamp(2, minItems ?? 1, maxItems ?? 3), a bound of 0     *)
(* being a bound; so with minItems <= maxItems the length is within        *)
(* [minItems, maxItems].                                                   *)
(***************************************************************************)
C5_ArrayLengthClamped ==
    ( /\ called = "generateArray"
      /\ Returned(outcome)
      /\ Has(schema, "items") )
    => /\ IsArr(Value(outcome))
       /\ Len(Value(outcome)[2])
            = Clamp(2, FieldOr(schema, "minItems", 1), FieldOr(schema, "maxItems", 3))

\* the names that the array required lists
Listed(required) == { required[2][i][2] : i \in 1..Len(required[2]) }

(***************************************************************************)
(* C6: every name that is listed in required and declared in properties is *)
(* a key of the object generateObject returns, for every outcome of the    *)
(* random draws and in every repeated generation.                          *)
(***************************************************************************)
C6_RequiredPresent ==
    ( /\ called \in { "generateObject", "generateSimpleSample" }
      /\ Has(schema, "type") /\ schema.type = "object"
      /\ Returned(outcome)
      /\ Has(schema, "properties")
      /\ Has(schema, "required") /\ IsArr(schema.required) )
    => /\ IsObj(Value(outcome))
       /\ Listed(schema.required) \cap DOMAIN schema.properties \subseteq Keys(Value(outcome))

\* a generation that keeps the required property and omits the optional one
C6_Witness ==
    /\ called = "generateObject"
    /\ Has(schema, "properties") /\ DOMAIN schema.properties = { "username", "email" }
    /\ Has(schema, "required") /\ schema.required = Arr(<<Str("username")>>)
    /\ Returned(outcome)
    /\ Keys(Value(outcome)) = { "username" }

(***************************************************************************)
(* C7: for a schema with a non-empty enum = [x, y, z] and no reference,    *)
(* example or examples, generation returns exactly x, for every kind the   *)
(* schema declares.  Stated here for the generations in which              *)
(* jsf.generate throws, whose result generateSimpleSample decides.         *)
(***************************************************************************)
C7_EnumFirst ==
    ( /\ called = "generateSampleData"
      /\ jsf = "threw"
      /\ NoShortCircuit(schema)
      /\ Has(schema, "type") /\ schema.type \in Kinds
      /\ Has(schema, "enum") /\ NonEmptyArray(schema.enum) )
    => outcome = Return(schema.enum[2][1])

\* the node has no type, reference, example, examples or enum
Typeless(s) == NoShortCircuit(s) /\ ~Has(s, "type") /\ ~Has(s, "enum")

(***************************************************************************)
(* C8 as claimed: generateSampleData on a schema without type, reference,  *)
(* example, examples and enum returns null, whatever other fields it has.  *)
(***************************************************************************)
C8_TypelessNull ==
    (called = "generateSampleData" /\ Typeless(schema)) => outcome = Return(Null)

(***************************************************************************)
(* C8 as amended: on such a schema generateSampleData never throws; it     *)
(* returns null whenever jsf.generate throws, and otherwise the value that *)
(* jsf.generate returned.                                                  *)
(***************************************************************************)
C8_TypelessFallbackNull ==
    (called = "generateSampleData" /\ Typeless(schema))
    => /\ Returned(outcome)
       /\ jsf # "notcalled"
       /\ jsf = "threw" => outcome = Return(Null)
       /\ jsf = "returned" => Value(outcome) \in JsfValues

\* a schema without type that has properties, items and bounds falls back to null
C8_Witness ==
    /\ called = "generateSampleData"
    /\ Typeless(schema)
    /\ Has(schema, "properties") /\ Has(schema, "items") /\ Has(schema, "minimum")
    /\ jsf = "threw"
    /\ outcome = Return(Null)

(***************************************************************************)
(* C9 as claimed: for every schema of type integer the value of            *)
(* generateNumber is a whole number, for every combination of minimum,     *)
(* maximum, exclusive bounds, multipleOf and enum (an array of numbers).   *)
(***************************************************************************)
C9_IntegerWholeAnyEnum ==
    ( /\ called = "generateNumber"
      /\ schema.type = "integer"
      /\ Has(schema, "enum") => IsArr(schema.enum) /\ \A i \in 1..Len(schema.enum[2]) : IsNum(schema.enum[2][i])
      /\ Returned(outcome) )
    => IsNum(Value(outcome)) /\ IsWhole(Value(outcome)[2])

(***************************************************************************)
(* C9 as amended: for every schema of type integer without a non-empty     *)
(* enum the value of generateNumber is a whole number, for every           *)
(* combination of minimum, maximum, exclusive bounds and multipleOf.       *)
(***************************************************************************)
C9_IntegerWhole ==
    ( /\ called = "generateNumber"
      /\ schema.type = "integer"
      /\ ~HasEnum(schema)
      /\ Returned(outcome) )
    => IsNum(Value(outcome)) /\ IsWhole(Value(outcome)[2])

\* an integer schema whose midpoint 1/4 is rounded to 0
C9_Witness ==
    /\ called = "generateNumber"
    /\ schema = [type |-> "integer", minimum |-> Whole(0), maximum |-> Half(1)]
    /\ outcome = Return(Num(Whole(0)))

(***************************************************************************)
(* C10: for a number or integer schema with multipleOf = m > 0 and no      *)
(* enum, the value of generateNumber is an exact multiple of m, also after *)
(* the integer rounding.  Stated here for the schemas whose constraints    *)
(* some number meets.                                                      *)
(***************************************************************************)
C10_MultipleOf ==
    ( /\ called = "generateNumber"
      /\ Returned(outcome)
      /\ ~HasEnum(schema)
      /\ Has(schema, "multipleOf") /\ schema.multipleOf > 0
      /\ Satisfiable(schema) )
    => IsNum(Value(outcome)) /\ Value(outcome)[2] % schema.multipleOf = 0

\* the literal the claim names for a format, "" for any other format
ClaimedLiteral(format) ==
    CASE format = "uuid" -> "123e4567-e89b-12d3-a456-426614174000"
      [] format = "email" -> "user@example.com"
      [] format \in {"uri", "url"} -> "https://example.com"
      [] format = "ipv4" -> "192.168.1.1"
      [] format = "ipv6" -> "2001:0db8:85a3:0000:0000:8a2e:0370:7334"
      [] OTHER -> ""

\* the formats generateString has a literal for
Recognized == { "date", "date-time", "email", "uri", "url", "uuid", "ipv4", "ipv6" }

\* "example" cut or padded with "x" to n characters
Padded(n) == SubSeq("examplexxxxxxxxxxxxx", 1, n)

(***************************************************************************)
(* C11: for a string schema with an empty or absent enum, generateString   *)
(* returns the exact literal of a recognized format (uuid, email, uri/url, *)
(* ipv4, ipv6), whatever pattern, minLength and maxLength are; with an     *)
(* unrecognized format it returns the pattern placeholder when a pattern   *)
(* is set, and else the base word cut or padded to the computed length.    *)
(***************************************************************************)
C11_FormatLiterals ==
    ( /\ called = "generateString"
      /\ Returned(outcome)
      /\ Has(schema, "enum") => schema.enum = Arr(<<>>)
      /\ Has(schema, "format") )
    => IF ClaimedLiteral(schema.format) # ""
       THEN outcome = Return(Str(ClaimedLiteral(schema.format)))
       ELSE schema.format \notin Recognized
            => IF Has(schema, "pattern") /\ schema.pattern # ""
               THEN outcome = Return(Str("string-matching-pattern"))
               ELSE \E n \in 0..20 :
                       /\ outcome = Return(Str(Padded(n)))
                       /\ n = Min(IF Has(schema, "maxLength") /\ schema.maxLength # 0
                                  THEN schema.maxLength ELSE 10,
                                  Max(IF Has(schema, "minLength") /\ schema.minLength # 0
                                      THEN schema.minLength ELSE 3, 5))

\* a uuid schema that also has a pattern and length bounds the literal does not meet
C11_Witness ==
    /\ called = "generateString"
    /\ Has(schema, "format") /\ schema.format = "uuid"
    /\ Has(schema, "pattern") /\ schema.pattern # ""
    /\ Has(schema, "maxLength") /\ schema.maxLength = 1
    /\ outcome = Return(Str("123e4567-e89b-12d3-a456-426614174000"))

(***************************************************************************)
(* C13: for a number or integer schema without enum and multipleOf in      *)
(* which exclusiveMinimum = e and/or exclusiveMaximum = f is set (e < f    *)
(* when both are, and for type integer an integer strictly between them),  *)
(* the value v of generateNumber is above e and below f, whatever minimum  *)
(* and maximum are.  Stated here for the schemas whose constraints some    *)
(* number meets.                                                           *)
(***************************************************************************)
C13_ExclusiveBounds ==
    ( /\ called = "generateNumber"
      /\ Returned(outcome)
      /\ ~HasEnum(schema)
      /\ ~Has(schema, "multipleOf")
      /\ Has(schema, "exclusiveMinimum") \/ Has(schema, "exclusiveMaximum")
      /\ Satisfiable(schema) )
    => /\ IsNum(Value(outcome))
       /\ Has(schema, "exclusiveMinimum") => Value(outcome)[2] > schema.exclusiveMinimum
       /\ Has(schema, "exclusiveMaximum") => Value(outcome)[2] < schema.exclusiveMaximum

\* the names the object schema declares
Declared(s) == IF Has(s, "properties") THEN DOMAIN s.properties ELSE {}

\* every declared property of the result has a value generated from its schema
DeclaredKeepValues(s, v) ==
    \A p \in Keys(v) \cap Declared(s) :
        v[2][p] \in ReturnedValues(generateSampleData(s.properties[p]))

(***************************************************************************)
(* C14: the object of generateObject has, when additionalProperties is     *)
(* true, exactly one property beyond the included declared ones, named     *)
(* additionalProperty with the value "value"; when additionalProperties is *)
(* a schema node, exactly one extra property whose value is generated from *)
(* that node; in both cases each included declared property keeps its      *)
(* generated value; when additionalProperties is absent or false, its keys *)
(* are declared names.                                                     *)
(***************************************************************************)
C14_AdditionalProperty ==
    ( /\ called = "generateObject"
      /\ Returned(outcome) )
    => LET v == Value(outcome)
           extra == Keys(v) \ Declared(schema)
       IN  IF ~Has(schema, "additionalProperties") \/ schema.additionalProperties = Bool(FALSE)
           THEN Keys(v) \subseteq Declared(schema)
           ELSE IF schema.additionalProperties = Bool(TRUE)
           THEN /\ extra = { "additionalProperty" }
                /\ v[2]["additionalProperty"] = Str("value")
                /\ DeclaredKeepValues(schema, v)
           ELSE schema.additionalProperties[1] = "schema"
                => /\ extra = { "additionalProperty" }
                   /\ v[2]["additionalProperty"] \in
                        ReturnedValues(generateSampleData(schema.additionalProperties[2]))
                   /\ DeclaredKeepValues(schema, v)

(***************************************************************************)
(* openapi-parser.ts (getBaseUrl, getOperations) and http-generator.ts.    *)
(*                                                                         *)
(*  - A document is a record; paths is the sequence of the <<path, path    *)
(*    item>> pairs that Object.entries(spec.paths) yields.                 *)
(*  - A path item is <<"null">> or <<"item", record>>; an operation is     *)
(*    <<"null">> or <<"op", record>>.                                      *)
(*  - A text is the sequence of the pieces between its line feeds          *)
(*    (text.split("\n")): "a\nb\n" is <<"a", "b", "">>.                    *)
(***************************************************************************)
\* the number of paths of a document is at most MaxPaths
MaxPaths == 2

Item(fields) == <<"item", fields>>
Op(fields) == <<"op", fields>>

\* the text of a string without line feed
Piece(str) == <<str>>
\* the text str + "\n"
Line(str) == <<str, "">>

\* a + b for two texts
Concat(a, b) ==
    SubSeq(a, 1, Len(a) - 1) \o <<a[Len(a)] \o Head(b)>> \o Tail(b)

\* String.prototype.startsWith
StartsWith(str, prefix) ==
    Len(str) >= Len(prefix) /\ SubSeq(str, 1, Len(prefix)) = prefix

\* String.prototype.indexOf, counted from 1; 0 when the pattern does not occur
IndexOf(str, pattern) ==
    LET hits == { i \in 1..(Len(str) - Len(pattern) + 1) :
                    SubSeq(str, i, i + Len(pattern) - 1) = pattern }
    IN  IF hits = {} THEN 0 ELSE CHOOSE i \in hits : \A j \in hits : i <= j

\* String.prototype.includes
Contains(str, pattern) == pattern = "" \/ IndexOf(str, pattern) > 0

\* String.prototype.replace(pattern, replacement) for a string pattern: the first occurrence
ReplaceFirst(str, pattern, replacement) ==
    LET i == IndexOf(str, pattern)
    IN  IF i = 0 THEN str
        ELSE SubSeq(str, 1, i - 1) \o replacement \o SubSeq(str, i + Len(pattern), Len(str))

\* String(value) of the sample values that occur
JsString(v) ==
    CASE v[1] = "str" -> v[2]
      [] v[1] = "bool" -> IF v[2] THEN "true" ELSE "false"
      [] v[1] = "null" -> "null"
      [] v[1] = "obj" -> "[object Object]"

\* JSON.stringify(value) of the scalar sample values that occur
JsonStringify(v) ==
    CASE v[1] = "str" -> "\"" \o v[2] \o "\""
      [] v[1] = "bool" -> IF v[2] THEN "true" ELSE "false"
      [] v[1] = "null" -> "null"

\* encodeURIComponent of one character of the strings that occur
EncodeChar(ch) ==
    CASE ch = " " -> "%20"
      [] ch = "[" -> "%5B"
      [] ch = "]" -> "%5D"
      [] ch = "/" -> "%2F"
      [] ch = "#" -> "%23"
      [] ch = "@" -> "%40"
      [] OTHER -> ch

RECURSIVE EncodeURIComponent(_)
EncodeURIComponent(str) ==
    IF str = "" THEN ""
    ELSE EncodeChar(SubSeq(str, 1, 1)) \o EncodeURIComponent(SubSeq(str, 2, Len(str)))

\* Array.prototype.join
RECURSIVE Join(_, _)
Join(strs, sep) ==
    IF strs = <<>> THEN ""
    ELSE IF Len(strs) = 1 THEN strs[1]
    ELSE strs[1] \o sep \o Join(Tail(strs), sep)

\* the methods getOperations looks for, in its order, without trace
MethodsWithoutTrace == << "get", "post", "put", "patch", "delete", "options", "head" >>

Methods == << "get", "post", "put", "patch", "delete", "options", "head", "trace" >>

\* method.toUpperCase()
ToUpperCase(method) ==
    CASE method = "get" -> "GET"
      [] method = "post" -> "POST"
      [] method = "put" -> "PUT"
      [] method = "patch" -> "PATCH"
      [] method = "delete" -> "DELETE"
      [] method = "options" -> "OPTIONS"
      [] method = "head" -> "HEAD"
      [] method = "trace" -> "TRACE"

DefaultBaseUrl == "http://localhost"

getBaseUrl(spec) ==
    IF Has(spec, "servers") /\ Len(spec.servers) > 0
    THEN spec.servers[1].url
    ELSE DefaultBaseUrl

\* the parameters of a list that are no references
RECURSIVE WithoutReferences(_)
WithoutReferences(params) ==
    IF params = <<>> THEN <<>>
    ELSE IF Has(Head(params), "ref") THEN WithoutReferences(Tail(params))
    ELSE <<Head(params)>> \o WithoutReferences(Tail(params))

resolveParameters(pathItem, operation) ==
    (IF Has(pathItem, "parameters") THEN WithoutReferences(pathItem.parameters) ELSE <<>>)
    \o (IF Has(operation, "parameters") THEN WithoutReferences(operation.parameters) ELSE <<>>)

\* the fields of the entry that hold the request body: none when resolveRequestBody yields undefined
resolveRequestBody(operation) ==
    IF ~Has(operation, "requestBody") THEN {}
    ELSE IF Has(operation.requestBody, "ref") THEN {}
    ELSE { operation.requestBody }

\* the entries getOperations pushes for one path, from the methods list on
RECURSIVE PathOperations(_, _, _)
PathOperations(path, pathItem, methods) ==
    IF methods = <<>> THEN <<>>
    ELSE LET method == Head(methods)
             rest == PathOperations(path, pathItem, Tail(methods))
         IN  IF Has(pathItem, method) /\ Truthy(pathItem[method])
             THEN LET operation == pathItem[method][2]
                  IN  << [ path |-> path,
                           method |-> ToUpperCase(method),
                           operation |-> operation,
                           parameters |-> resolveParameters(pathItem, operation),
                           requestBody |-> resolveRequestBody(operation) ] >> \o rest
             ELSE rest

RECURSIVE EntriesOperations(_)
EntriesOperations(entries) ==
    IF entries = <<>> THEN <<>>
    ELSE LET path == Head(entries)[1]
             pathItem == Head(entries)[2]
         IN  (IF ~Truthy(pathItem) THEN <<>> ELSE PathOperations(path, pathItem[2], Methods))
             \o EntriesOperations(Tail(entries))

getOperations(spec) ==
    IF ~Has(spec, "paths") THEN <<>> ELSE EntriesOperations(spec.paths)

\* obj[name] = value on an object held as a sequence of <<name, value>> pairs
Put(pairs, name, value) ==
    IF \E i \in 1..Len(pairs) : pairs[i][1] = name
    THEN [ i \in 1..Len(pairs) |-> IF pairs[i][1] = name THEN <<name, value>> ELSE pairs[i] ]
    ELSE Append(pairs, <<name, value>>)

NoParams == [ pathParams |-> <<>>, queryParams |-> <<>>, headerParams |-> <<>> ]

\* one round of the loop over op.parameters
AddParam(acc, param, sampleValue) ==
    CASE param.in = "path" ->
            [ acc EXCEPT !.pathParams = Put(@, param.name, sampleValue) ]
      [] param.in = "query" ->
            [ acc EXCEPT !.queryParams =
                Append(@, param.name \o "=" \o EncodeURIComponent(JsString(sampleValue))) ]
      [] param.in = "header" ->
            [ acc EXCEPT !.headerParams = Put(@, param.name, sampleValue) ]
      [] OTHER -> acc

\* the loop over op.parameters: the outcomes are the collected parameters or an exception
RECURSIVE ProcessParameters(_, _)
ProcessParameters(params, acc) ==
    IF params = <<>> THEN { Return(acc) }
    ELSE LET param == Head(params)
             samples == generateSampleData(IF Has(param, "schema") THEN param.schema
                                           ELSE NullNode)
         IN  UNION { IF Thrown(o) THEN { o }
                     ELSE ProcessParameters(Tail(params), AddParam(acc, param, o[2]))
                     : o \in samples }

RECURSIVE ReplacePathParams(_, _)
ReplacePathParams(url, pathParams) ==
    IF pathParams = <<>> THEN url
    ELSE ReplacePathParams(
            ReplaceFirst(url, "{" \o Head(pathParams)[1] \o "}", JsString(Head(pathParams)[2])),
            Tail(pathParams))

RECURSIVE HeaderLines(_)
HeaderLines(headerParams) ==
    IF headerParams = <<>> THEN Piece("")
    ELSE Concat(Line(Head(headerParams)[1] \o ": " \o JsString(Head(headerParams)[2])),
                HeaderLines(Tail(headerParams)))

\* the comment lines and the empty line at the head of a request
CommentLines(operation) ==
    Concat(Concat(Concat(
        IF Has(operation, "summary") /\ operation.summary # ""
        THEN Line("# " \o operation.summary) ELSE Piece(""),
        IF Has(operation, "description") /\ operation.description # ""
        THEN Line("# " \o operation.description) ELSE Piece("")),
        IF Has(operation, "operationId") /\ operation.operationId # ""
        THEN Line("# Operation ID: " \o operation.operationId) ELSE Piece("")),
        Line(""))

\* the request line and the header lines
RequestLines(op, acc) ==
    LET replaced == ReplacePathParams("{{baseUrl}}" \o op.path, acc.pathParams)
        url == IF Len(acc.queryParams) > 0
               THEN replaced \o "?" \o Join(acc.queryParams, "&")
               ELSE replaced
    IN  Concat(Line(op.method \o " " \o url), HeaderLines(acc.headerParams))

\* the text of the body for one sample value of a scalar schema
BodyText(contentType, bodyData) ==
    IF Contains(contentType, "json") THEN Piece(JsonStringify(bodyData))
    ELSE IF Contains(contentType, "form") THEN Piece("")
    ELSE Piece(JsonStringify(bodyData))

\* the Content-Type line and the body: the outcomes are texts or an exception
BodyLines(op) ==
    IF op.requestBody = {} THEN { Return(Piece("")) }
    ELSE LET requestBody == CHOOSE b \in op.requestBody : TRUE
             content_ == IF Has(requestBody, "content") THEN requestBody.content ELSE <<>>
         IN  IF Len(content_) = 0 THEN { Return(Piece("")) }
             ELSE LET contentType == content_[1][1]
                      mediaType == content_[1][2]
                      head == Concat(Line("Content-Type: " \o contentType), Line(""))
                  IN  IF ~Has(mediaType, "schema") THEN { Return(head) }
                      ELSE { IF Thrown(o) THEN o
                             ELSE Return(Concat(head, BodyText(contentType, o[2])))
                             : o \in generateSampleData(mediaType.schema) }

generateHttpRequest(op, baseUrl) ==
    UNION { IF Thrown(p) THEN { p }
            ELSE { IF Thrown(b) THEN b
                   ELSE Return(Concat(Concat(CommentLines(op.operation),
                                             RequestLines(op, p[2])), b[2]))
                   : b \in BodyLines(op) }
            : p \in ProcessParameters(op.parameters, NoParams) }

\* the loop of generateHttpFile over the operations
RECURSIVE RequestBlocks(_, _, _)
RequestBlocks(ops, baseUrl, text) ==
    IF ops = <<>> THEN { Return(text) }
    ELSE UNION { IF Thrown(r) THEN { r }
                 ELSE RequestBlocks(Tail(ops), baseUrl,
                        Concat(Concat(text, r[2]),
                               Concat(Line(""), Concat(Line("###"), Line("")))))
                 : r \in generateHttpRequest(Head(ops), baseUrl) }

generateHttpFile(spec) ==
    LET baseUrl == getBaseUrl(spec)
        ops == getOperations(spec)
        header ==
            Concat(Concat(Concat(Concat(Concat(Concat(Concat(
                Line("# Generated from OpenAPI Specification"),
                Line("# Title: " \o spec.info.title)),
                Line("# Version: " \o spec.info.version)),
                IF Has(spec.info, "description") /\ spec.info.description # ""
                THEN Line("# Description: " \o spec.info.description) ELSE Piece("")),
                Line("")),
                Line("@baseUrl = " \o baseUrl)),
                Line("")),
                Concat(Line("###"), Line("")))
    IN  RequestBlocks(ops, baseUrl, header)

(***************************************************************************)
(* The documents of the checked input space.                               *)
(***************************************************************************)
HeaderParam == [ name |-> "X-Trace", in |-> "header" ]

OpPlain == Op([ responses |-> "200" ])
OpGetPet ==
    Op([ operationId |-> "getPet", summary |-> "Find a pet",
         parameters |-> << [ name |-> "id", in |-> "path", schema |-> [type |-> "string"] ] >> ])
OpAddPet ==
    Op([ operationId |-> "addPet",
         requestBody |-> [ content |-> << <<"application/json", [schema |-> [type |-> "string"]]>>,
                                          <<"text/plain", [schema |-> [type |-> "string"]]>> >> ] ])

PathItems ==
    LET \* a query parameter with a schema reference, a parameter reference, a header and
        \* a cookie parameter, and a request body reference
        OpSearch ==
            Op([ description |-> "Search pets",
                 parameters |->
                    << [ name |-> "tag", in |-> "query",
                         schema |-> [ref |-> Str("#/components/schemas/Tag")] ],
                       [ ref |-> Str("#/components/parameters/limit") ],
                       HeaderParam,
                       [ name |-> "session", in |-> "cookie", schema |-> [type |-> "string"] ] >>,
                 requestBody |-> [ ref |-> Str("#/components/requestBodies/Pet") ] ])
        OpUpload ==
            Op([ summary |-> "Upload",
                 requestBody |-> [ content |-> << <<"multipart/form-data",
                                                    [schema |-> [type |-> "string"]]>> >> ] ])
        OpText ==
            Op([ requestBody |-> [ content |-> << <<"text/plain", [example |-> "none"]>> >> ] ])
        OpNoContent == Op([ requestBody |-> [ description |-> "nothing" ] ])
    IN  { Null,
          Item([ description |-> "no operation" ]),
          Item([ get |-> OpPlain ]),
          Item([ post |-> OpAddPet, get |-> OpGetPet, parameters |-> <<HeaderParam>> ]),
          Item([ trace |-> OpPlain, head |-> OpSearch, options |-> OpText ]),
          Item([ delete |-> OpPlain, put |-> OpUpload, patch |-> OpNoContent ]),
          Item([ get |-> Null, put |-> OpPlain ]),
          Item([ trace |-> OpPlain, head |-> OpPlain, options |-> OpPlain, delete |-> OpPlain,
                 patch |-> OpPlain, put |-> OpPlain, post |-> OpPlain, get |-> OpPlain ]) }

PathNames == { "/pets", "/pets/{id}", "/search" }

\* the sequences of at most n entries with distinct paths
RECURSIVE PathEntries(_)
PathEntries(n) ==
    IF n = 0 THEN { <<>> }
    ELSE LET shorter == PathEntries(n - 1)
         IN  shorter \cup
             { Append(entries, <<path, item>>) :
                 entries \in { e \in shorter : Len(e) = n - 1 },
                 path \in PathNames, item \in PathItems }

DistinctPaths(entries) ==
    \A i, j \in 1..Len(entries) : entries[i][1] = entries[j][1] => i = j

Documents ==
    WithOpt(WithOpt(
        { [ info |-> i ] :
            i \in { [ title |-> "Pets", version |-> "1.0.0" ],
                    [ title |-> "Pets", version |-> "1.0.0", description |-> "A pet store" ] } },
        "servers", { <<>>, << [ url |-> "https://api.example.com/v1" ] >> }),
        "paths", { e \in PathEntries(MaxPaths) : DistinctPaths(e) })

(***************************************************************************)
(* The state machine of a document: getOperations and generateHttpFile are *)
(* applied to it, each once.                                               *)
(***************************************************************************)
InitHttp ==
    /\ GeneratorIdle
    /\ document \in Documents
    /\ operations = NoOutcome
    /\ content = NoOutcome
    /\ CommandIdle
    /\ StackIdle

GetOperations ==
    /\ operations = NoOutcome
    /\ operations' = Return(getOperations(document))
    /\ UNCHANGED <<generatorVars, document, content, commandVars, stackVars>>

GenerateHttpFile ==
    /\ content = NoOutcome
    /\ \E o \in generateHttpFile(document) : content' = o
    /\ UNCHANGED <<generatorVars, document, operations, commandVars, stackVars>>

NextHttp ==
    \/ GetOperations
    \/ GenerateHttpFile

SpecHttp == InitHttp /\ [][NextHttp]_vars

(***************************************************************************)
(* Vocabulary of the properties of a document.                             *)
(***************************************************************************)
ClaimedMethods == << "get", "post", "put", "patch", "delete", "options", "head", "trace" >>

\* the <<path, METHOD>> pairs for which the path item defines an operation, by path order
\* and then by the order of ClaimedMethods
ClaimedOperations(doc) ==
    LET entries == IF Has(doc, "paths") THEN doc.paths ELSE <<>>
        width == Len(ClaimedMethods)
        PathOf(k) == ((k - 1) \div width) + 1
        MethodOf(k) == ClaimedMethods[((k - 1) % width) + 1]
        Defines(k) ==
            LET item == entries[PathOf(k)][2]
            IN  /\ item # Null
                /\ Has(item[2], MethodOf(k))
                /\ item[2][MethodOf(k)] # Null
        defined == SelectSeq([ k \in 1..(Len(entries) * width) |-> k ], Defines)
    IN  [ i \in 1..Len(defined) |->
            << entries[PathOf(defined[i])][1], ToUpperCase(MethodOf(defined[i])) >> ]

\* a line that begins a request: a method name and the base URL variable
IsRequestLine(line) ==
    \E i \in 1..Len(ClaimedMethods) :
        StartsWith(line, ToUpperCase(ClaimedMethods[i]) \o " {{baseUrl}}")

\* the part of a path before its first parameter
PathPrefix(path) ==
    IF IndexOf(path, "{") = 0 THEN path ELSE SubSeq(path, 1, IndexOf(path, "{") - 1)

(***************************************************************************)
(* C12: getOperations returns exactly one entry per (path, method) pair    *)
(* for which the path item defines an operation under get, post, put,      *)
(* patch, delete, options, head or trace - none omitted, none duplicated,  *)
(* by path order and then by that method order - and generateHttpFile      *)
(* returns a text with exactly one request per entry, in the same order,   *)
(* each followed by a "###" line before the next request.                  *)
(***************************************************************************)
C12_CompleteCoverage ==
    LET claimed == ClaimedOperations(document)
    IN  /\ operations # NoOutcome =>
            /\ Returned(operations)
            /\ [ i \in 1..Len(operations[2]) |->
                    << operations[2][i].path, operations[2][i].method >> ] = claimed
        /\ content # NoOutcome =>
            /\ Returned(content)
            /\ LET lines == content[2]
                   IsRequest(k) == IsRequestLine(lines[k])
                   requests == SelectSeq([ k \in 1..Len(lines) |-> k ], IsRequest)
               IN  /\ Len(requests) = Len(claimed)
                   /\ \A i \in 1..Len(requests) :
                        /\ StartsWith(lines[requests[i]],
                                      claimed[i][2] \o " {{baseUrl}}" \o PathPrefix(claimed[i][1]))
                        /\ \E j \in (requests[i] + 1)..Len(lines) :
                            /\ lines[j] = "###"
                            /\ i < Len(requests) => j < requests[i + 1]
                   /\ Cardinality({ k \in 1..Len(lines) : lines[k] = "###" }) = Len(claimed) + 1

\* a document of two paths, one without path item, for which both functions have returned
C12_Witness ==
    /\ Returned(operations)
    /\ Returned(content)
    /\ Has(document, "paths") /\ Len(document.paths) = MaxPaths
    /\ \E i \in 1..Len(document.paths) : document.paths[i][2] = Null
    /\ Len(operations[2]) = Len(ClaimedMethods)
    /\ \E k \in 1..Len(content[2]) : content[2][k] = "TRACE {{baseUrl}}/pets"

(***************************************************************************)
(* openapi-parser.ts: validateAndParseOpenAPI.  SwaggerParser is a library *)
(* outside the repository: what validate and bundle do with the file is    *)
(* drawn in the initial state.  An exception is the message of its Error.  *)
(***************************************************************************)
\* the message of the error thrown for a validated document of another version
UnsupportedMessage(api) ==
    "Unsupported API specification version. Expected OpenAPI 3.x or Swagger 2.0, but got: "
    \o (IF Has(api, "openapi") THEN "OpenAPI " \o api.openapi
        ELSE IF Has(api, "swagger") THEN "Swagger " \o api.swagger
        ELSE "unknown version")

\* the try block: the outcome before the catch clause
TryBlock(lib) ==
    IF Thrown(lib.validate) THEN lib.validate
    ELSE LET api == lib.validate[2]
         IN  IF Has(api, "openapi") /\ StartsWith(api.openapi, "3") THEN Return(api)
             ELSE IF Has(api, "swagger") /\ api.swagger = "2.0" THEN lib.bundle
             ELSE Throw(UnsupportedMessage(api))

\* the catch clause
CatchBlock(filePath, errorMessage) ==
    IF Contains(errorMessage, "ENOENT") THEN Throw("File not found: " \o filePath)
    ELSE IF Contains(errorMessage, "JSON") \/ Contains(errorMessage, "YAML")
    THEN Throw("Invalid JSON/YAML format: " \o errorMessage)
    ELSE IF Contains(errorMessage, "Unsupported") THEN Throw(errorMessage)
    ELSE Throw("Failed to parse OpenAPI specification: " \o errorMessage)

validateAndParseOpenAPI(filePath, lib) ==
    LET attempt == TryBlock(lib)
    IN  IF Thrown(attempt) THEN CatchBlock(filePath, attempt[2]) ELSE attempt

(***************************************************************************)
(* The files of the checked input space.                                   *)
(***************************************************************************)
ApiDocuments ==
    WithOpt(WithOpt(
        { [ info |-> [ title |-> "Pets", version |-> "1.0.0" ] ],
          [ info |-> [ title |-> "Pets", version |-> "1.0.0" ],
            paths |-> << <<"/pets/{id}", Item([ get |-> OpGetPet, put |-> OpAddPet ])>> >> ] },
        "openapi", { "3.0.3", "3.1.0", "30", "4.0.0", "2.0", "4.0-JSON" }),
        "swagger", { "2.0", "1.2", "2.0-YAML" })

\* the messages of the errors SwaggerParser throws
LibraryErrors ==
    { "ENOENT: no such file or directory",
      "Unexpected token } in JSON at position 12",
      "YAMLException: bad indentation of a mapping entry",
      "Unsupported OpenAPI version: 4.0.0. Swagger Parser only supports versions 3.0.0, 3.0.1",
      "Unrecognized Swagger version: 1.2. Expected 2.0",
      "Error resolving $ref pointer" }

\* what SwaggerParser.validate and SwaggerParser.bundle settle to
Libraries ==
    [ validate : { Return(api) : api \in ApiDocuments } \cup { Throw(m) : m \in LibraryErrors },
      bundle :
        { Return([ info |-> [ title |-> "Pets", version |-> "1.0.0" ], swagger |-> "2.0",
                   paths |-> << <<"/pets", Item([ get |-> OpPlain ])>> >> ]),
          Throw("Error resolving $ref pointer"),
          Throw("ENOENT: no such file or directory") } ]

Editor(fsPath) == <<"editor", fsPath>>
Undefined == <<"undefined">>

\* what showInputBox resolves to: undefined or a name that validateInput accepts
InputBoxAnswers == { Undefined, Str("api-requests.http"), Str("pets.http") }

(***************************************************************************)
(* extension.ts: the handler of the command openapi-to-http.generateHttp.  *)
(* log holds what the handler has done for the user, in order: an error    *)
(* message, the file written, the document opened and shown, the           *)
(* information message.                                                    *)
(***************************************************************************)
ErrorMessage(message) == <<"error", message>>
FileWritten(path) == <<"write", path>>

\* the catch clause of the handler
Caught(errorMessage) == ErrorMessage("Error: " \o errorMessage)

\* path.dirname of an absolute path
Dirname(filePath) ==
    LET slashes == { i \in 1..Len(filePath) : SubSeq(filePath, i, i) = "/" }
        last == CHOOSE i \in slashes : \A j \in slashes : j <= i
    IN  IF last = 1 THEN "/" ELSE SubSeq(filePath, 1, last - 1)

\* path.join(outputDir, fileName)
OutputPath(filePath, name) ==
    IF name[1] # "str" THEN Throw("The \"path\" argument must be of type string")
    ELSE Return(Dirname(filePath) \o "/" \o name[2])

InitCommand ==
    /\ GeneratorIdle
    /\ HttpIdle
    /\ StackIdle
    /\ editor \in { Null } \cup { Editor(p) : p \in { "/api/petstore.yaml", "/work/JSON/pets.json" } }
    /\ library \in Libraries
    /\ pc = "start"
    /\ openApiSpec = NoOutcome
    /\ fileName = NoOutcome
    /\ log = <<>>

\* the handler ends with this message shown
EndWith(message) ==
    /\ log' = Append(log, message)
    /\ pc' = "done"

\* the command is invoked: lines 13-22, up to the await of validateAndParseOpenAPI
Invoke ==
    /\ pc = "start"
    /\ IF ~Truthy(editor)
       THEN EndWith(ErrorMessage("No active editor found"))
       ELSE pc' = "validating" /\ UNCHANGED log
    /\ UNCHANGED <<editor, library, openApiSpec, fileName>>
    /\ UNCHANGED <<generatorVars, httpVars, stackVars>>

\* validateAndParseOpenAPI has settled: lines 38-55, up to the await of showInputBox
Validated ==
    /\ pc = "validating"
    /\ LET result == validateAndParseOpenAPI(editor[2], library)
       IN  /\ openApiSpec' = result
           /\ IF Thrown(result) THEN EndWith(Caught(result[2]))
              ELSE IF IsAbsent(result[2])
              THEN EndWith(ErrorMessage("The file is not a valid OpenAPI specification"))
              ELSE pc' = "prompting" /\ UNCHANGED log
    /\ UNCHANGED <<editor, library, fileName>>
    /\ UNCHANGED <<generatorVars, httpVars, stackVars>>

\* a handler that goes on without a file name
CancelledNever(answer) == FALSE

\* if (!fileName) return
Cancelled(answer) == ~Truthy(answer)

\* showInputBox has settled: lines 55-91, up to the await of openTextDocument;
\* writeFileSync writes the file or throws
InputBox ==
    /\ pc = "prompting"
    /\ \E answer \in InputBoxAnswers, writes \in BOOLEAN :
        /\ fileName' = answer
        /\ IF Cancelled(answer) THEN pc' = "done" /\ UNCHANGED log
           ELSE \E httpContent \in generateHttpFile(openApiSpec[2]) :
                    LET outputPath == OutputPath(editor[2], answer)
                    IN  IF Thrown(httpContent) THEN EndWith(Caught(httpContent[2]))
                        ELSE IF Thrown(outputPath) THEN EndWith(Caught(outputPath[2]))
                        ELSE IF ~writes THEN EndWith(Caught("EACCES: permission denied"))
                        ELSE /\ log' = Append(log, FileWritten(outputPath[2]))
                             /\ pc' = "opening"
    /\ UNCHANGED <<editor, library, openApiSpec>>
    /\ UNCHANGED <<generatorVars, httpVars, stackVars>>

\* the path of the file the handler wrote
WrittenPath == log[Len(log)][2]

\* openTextDocument has settled: lines 91-94, up to the await of showTextDocument
OpenTextDocument ==
    /\ pc = "opening"
    /\ \E opens \in BOOLEAN :
        IF opens
        THEN /\ log' = Append(log, <<"open", WrittenPath>>)
             /\ pc' = "showing"
        ELSE EndWith(Caught("cannot open file"))
    /\ UNCHANGED <<editor, library, openApiSpec, fileName>>
    /\ UNCHANGED <<generatorVars, httpVars, stackVars>>

\* showTextDocument has settled: lines 94-98
ShowTextDocument ==
    /\ pc = "showing"
    /\ \E shows \in BOOLEAN :
        IF shows
        THEN /\ log' = log \o << <<"show", WrittenPath>>,
                                 <<"info", "HTTP file generated: " \o fileName[2]>> >>
             /\ pc' = "done"
        ELSE EndWith(Caught("cannot show document"))
    /\ UNCHANGED <<editor, library, openApiSpec, fileName>>
    /\ UNCHANGED <<generatorVars, httpVars, stackVars>>

NextCommand ==
    \/ Invoke
    \/ Validated
    \/ InputBox
    \/ OpenTextDocument
    \/ ShowTextDocument

SpecCommand == InitCommand /\ [][NextCommand]_vars

(***************************************************************************)
(* Vocabulary of the properties of the command.                            *)
(***************************************************************************)
\* the kinds of the entries of log, in order
Shown == [ i \in 1..Len(log) |-> log[i][1] ]

FileIsWritten == \E i \in 1..Len(log) : log[i][1] = "write"

\* (a) the file is written once, then opened and shown, then the success message
Succeeded == Shown = << "write", "open", "show", "info" >>
\* (b) exactly one error message and no file written
FailedWithoutFile == Shown = << "error" >>
\* (c) the user cancelled the prompt: nothing written, nothing shown
CancelledQuietly == fileName = Undefined /\ Shown = <<>>
\* the file is written once and a later step threw: exactly one error message after it
FailedWithFile == Shown \in { << "write", "error" >>, << "write", "open", "error" >> }

\* the file is written only after validation returned a document and the user gave a name
WrittenInOrder ==
    /\ FileIsWritten => Returned(openApiSpec) /\ fileName # NoOutcome /\ Truthy(fileName)
    /\ fileName # NoOutcome => Returned(openApiSpec)

(***************************************************************************)
(* C15 as stated: the file is written only after validation has returned a *)
(* document and after the user has supplied a file name, in that order;    *)
(* every run of the handler ends in exactly one of (a) file written once,  *)
(* then opened, then the success message, (b) exactly one error message    *)
(* and no file written, (c) the prompt cancelled, nothing written and no   *)
(* error shown.                                                            *)
(***************************************************************************)
C15_ThreeOutcomes ==
    /\ WrittenInOrder
    /\ pc = "done" =>
        /\ Succeeded \/ FailedWithoutFile \/ CancelledQuietly
        /\ fileName = Undefined => CancelledQuietly

(***************************************************************************)
(* C15 amended: as above, with a fourth outcome: the file is written once  *)
(* and a later step (opening or showing the document) throws, so that      *)
(* exactly one error message follows the write and no success message is   *)
(* shown.                                                                  *)
(***************************************************************************)
C15_FourOutcomes ==
    /\ WrittenInOrder
    /\ pc = "done" =>
        /\ Succeeded \/ FailedWithoutFile \/ CancelledQuietly \/ FailedWithFile
        /\ fileName = Undefined => CancelledQuietly

\* a run that wrote and opened the file and then failed to show it
C15_Witness ==
    /\ pc = "done"
    /\ Shown = << "write", "open", "error" >>
    /\ log[1] = FileWritten("/api/pets.http")

\* the four classes of messages of the errors validateAndParseOpenAPI throws
MessageClasses ==
    { "File not found", "Invalid JSON/YAML format", "Unsupported API specification version",
      "Failed to parse OpenAPI specification" }

\* the validated document is OpenAPI 3.x or Swagger 2.0
Supported(api) ==
    \/ Has(api, "openapi") /\ StartsWith(api.openapi, "3")
    \/ Has(api, "swagger") /\ api.swagger = "2.0"

(***************************************************************************)
(* C16: validateAndParseOpenAPI returns a document only when the validated *)
(* document is OpenAPI 3.x or Swagger 2.0 and throws in every other case,  *)
(* never returning null; for a validated document of another version the   *)
(* thrown error is the "Unsupported API specification version..." error    *)
(* with its message unchanged, for every version string; and the message   *)
(* of every thrown error begins with exactly one of the four classes.      *)
(***************************************************************************)
C16_ParseOutcome ==
    openApiSpec # NoOutcome =>
        /\ Returned(openApiSpec) =>
            /\ ~IsAbsent(openApiSpec[2])
            /\ Returned(library.validate) /\ Supported(library.validate[2])
        /\ Returned(library.validate) /\ ~Supported(library.validate[2]) =>
            openApiSpec = Throw(UnsupportedMessage(library.validate[2]))
        /\ Thrown(openApiSpec) =>
            Cardinality({ c \in MessageClasses : StartsWith(openApiSpec[2], c) }) = 1

(***************************************************************************)
(* The calls of generateSampleData on a schema tree, one frame per call in *)
(* progress.  A frame holds the node of the call and where the call is:    *)
(* "entry" (the call has just been made), "items" (the loop of             *)
(* generateArray, count rounds left), "properties" (the loop of            *)
(* generateObject, names left), "additional" (its additionalProperties     *)
(* step), "return" (the last nested call has been made).                   *)
(***************************************************************************)
\* the schema trees nest at most MaxDepth levels
MaxDepth == 2

Frame(node) == [ node |-> node, at |-> "entry", count |-> 0, names |-> {} ]

\* the schema trees that nest at most depth levels: leaves, and the nodes that nest a
\* shallower tree one level deeper
RECURSIVE SchemaTrees(_)
SchemaTrees(depth) ==
    IF depth = 0
    THEN { [type |-> "string"],
           [ref |-> Str("#/components/schemas/Pet")],
           [type |-> "integer", example |-> Num(Whole(1))] }
    ELSE LET S == SchemaTrees(depth - 1)
         IN  S
             \cup { [type |-> "array", items |-> s] : s \in S }
             \cup { [type |-> "object", properties |-> [username |-> s]] : s \in S }
             \cup { [type |-> "object",
                     properties |-> [username |-> s, email |-> [type |-> "string"]],
                     required |-> Arr(<<Str("username")>>),
                     additionalProperties |-> <<"schema", s>>] : s \in S }
             \cup { [ref |-> Str("#/components/schemas/Pets"), type |-> "array", items |-> s]
                    : s \in S }
             \cup { [ref |-> Str(""), type |-> "array", items |-> s] : s \in S }
             \cup { [type |-> "object", properties |-> [username |-> [type |-> "string"]],
                     required |-> Num(Whole(5))],
                    [type |-> "object", additionalProperties |-> Null],
                    [type |-> "object", additionalProperties |-> Bool(TRUE)],
                    [type |-> "array", items |-> [ref |-> Num(Whole(5))]] }

InitRecursion ==
    /\ GeneratorIdle
    /\ HttpIdle
    /\ CommandIdle
    /\ root \in SchemaTrees(MaxDepth)
    /\ stack = <<>>
    /\ status = "ready"

Top == stack[Len(stack)]

\* the stack with f in the place of its top frame
ReplaceTop(f) == [ stack EXCEPT ![Len(stack)] = f ]

\* the call on top goes on, or a nested call is made
Continue(frames) ==
    /\ stack' = frames
    /\ status' = "running"

\* the call on top returns to its caller
Leave ==
    /\ stack' = SubSeq(stack, 1, Len(stack) - 1)
    /\ status' = IF Len(stack) = 1 THEN "returned" ELSE "running"

\* an exception leaves every call in progress: none of them catches it
Raise ==
    /\ stack' = <<>>
    /\ status' = "threw"

\* generateSampleData(root) is called
Call ==
    /\ status = "ready"
    /\ Continue(<<Frame(root)>>)
    /\ UNCHANGED <<root, generatorVars, httpVars, commandVars>>

\* generateSimpleSample(node), up to the first nested call
SimpleSample(node) ==
    IF ~Has(node, "type") \/ node.type = "" THEN Leave
    ELSE CASE node.type = "array" ->
                Continue(ReplaceTop([ Top EXCEPT !.at = "items",
                                        !.count = IF Has(node, "items") THEN ItemCount(node)
                                                  ELSE 0 ]))
           [] node.type = "object" ->
                Continue(ReplaceTop([ Top EXCEPT !.at = "properties",
                                        !.names = IF Has(node, "properties")
                                                  THEN DOMAIN node.properties ELSE {} ]))
           [] OTHER -> Leave

\* the call on top runs from its entry up to its return or its first nested call
Enter ==
    /\ status = "running"
    /\ Top.at = "entry"
    /\ LET node == Top.node
       IN  CASE Dispatch(node) = "ref" ->
                    IF Throws(generateSampleFromRef(node.ref)) # {} THEN Raise ELSE Leave
             [] Dispatch(node) \in { "absent", "example", "examples" } -> Leave
             [] OTHER -> \E j \in JsfOutcomes :
                            IF Returned(j) THEN Leave ELSE SimpleSample(node)
    /\ UNCHANGED <<root, generatorVars, httpVars, commandVars>>

\* one round of the loop of generateArray
NextItem ==
    /\ status = "running"
    /\ Top.at = "items"
    /\ IF Top.count > 0
       THEN Continue(Append(ReplaceTop([ Top EXCEPT !.count = @ - 1 ]), Frame(Top.node.items)))
       ELSE Leave
    /\ UNCHANGED <<root, generatorVars, httpVars, commandVars>>

\* one round of the loop of generateObject
NextProperty ==
    /\ status = "running"
    /\ Top.at = "properties"
    /\ LET node == Top.node
       IN  IF Top.names = {} THEN Continue(ReplaceTop([ Top EXCEPT !.at = "additional" ]))
           ELSE IF IncludesThrows(RequiredOrEmpty(node)) THEN Raise
           ELSE \E propName \in Top.names, drawn \in BOOLEAN :
                    LET rest == ReplaceTop([ Top EXCEPT !.names = @ \ { propName } ])
                    IN  IF Includes(RequiredOrEmpty(node), propName) \/ drawn
                        THEN Continue(Append(rest, Frame(node.properties[propName])))
                        ELSE Continue(rest)
    /\ UNCHANGED <<root, generatorVars, httpVars, commandVars>>

\* the additionalProperties step of generateObject
AdditionalProperties ==
    /\ status = "running"
    /\ Top.at = "additional"
    /\ LET node == Top.node
           after == ReplaceTop([ Top EXCEPT !.at = "return" ])
       IN  IF ~Has(node, "additionalProperties") THEN Leave
           ELSE IF node.additionalProperties[1] = "schema"
           THEN Continue(Append(after, Frame(node.additionalProperties[2])))
           ELSE IF node.additionalProperties = Null
           THEN Continue(Append(after, Frame(NullNode)))
           ELSE Leave
    /\ UNCHANGED <<root, generatorVars, httpVars, commandVars>>

\* generateObject returns after its last nested call
ReturnObject ==
    /\ status = "running"
    /\ Top.at = "return"
    /\ Leave
    /\ UNCHANGED <<root, generatorVars, httpVars, commandVars>>

NextRecursion ==
    \/ Call
    \/ Enter
    \/ NextItem
    \/ NextProperty
    \/ AdditionalProperties
    \/ ReturnObject

\* the JavaScript engine runs a call that can take a step
SpecRecursion == InitRecursion /\ [][NextRecursion]_vars /\ WF_vars(NextRecursion)

(***************************************************************************)
(* Vocabulary of the properties of the recursion.                          *)
(***************************************************************************)
\* the nodes nested directly in a node
NestedNodes(node) ==
    (IF Has(node, "items") THEN { node.items } ELSE {})
    \cup (IF Has(node, "properties")
          THEN { node.properties[p] : p \in DOMAIN node.properties } ELSE {})
    \cup (IF Has(node, "additionalProperties")
          THEN IF node.additionalProperties[1] = "schema" THEN { node.additionalProperties[2] }
               ELSE IF node.additionalProperties = Null THEN { NullNode } ELSE {}
          ELSE {})

RECURSIVE NestingDepth(_)
NestingDepth(node) ==
    IF NestedNodes(node) = {} THEN 0
    ELSE LET depths == { NestingDepth(n) : n \in NestedNodes(node) }
         IN  1 + CHOOSE d \in depths : \A e \in depths : e <= d

\* the calls nested in the call on the root are no deeper than the schema
DepthBounded == Len(stack) <= NestingDepth(root) + 1

\* no call is in progress below a call on a node with a reference
ReferenceEnds ==
    \A i \in 1..(Len(stack) - 1) : ~Has(stack[i].node, "ref")

\* no call is in progress below a call on a node with a non-empty reference
NonEmptyReferenceEnds ==
    \A i \in 1..(Len(stack) - 1) : ~(Has(stack[i].node, "ref") /\ Truthy(stack[i].node.ref))

Terminated == status \in { "returned", "threw" }

(***************************************************************************)
(* C17 as stated: every call of generateSampleData on a finite acyclic     *)
(* schema tree terminates, the depth of the nested calls never exceeds the *)
(* nesting depth of the schema, and no call is ever nested in the call on  *)
(* a node with a reference.                                                *)
(***************************************************************************)
C17_Terminates == [](DepthBounded /\ ReferenceEnds) /\ <>Terminated

(***************************************************************************)
(* C17 amended: every call of generateSampleData on a finite acyclic       *)
(* schema tree terminates, the depth of the nested calls never exceeds the *)
(* nesting depth of the schema, and no call is ever nested in the call on  *)
(* a node with a non-empty reference.                                      *)
(***************************************************************************)
C17_TerminatesNonEmptyReference == [](DepthBounded /\ NonEmptyReferenceEnds) /\ <>Terminated

\* a call nested as deep as the schema, below a node with an empty reference
C17_Witness ==
    /\ Len(stack) = MaxDepth + 1
    /\ NestingDepth(root) = MaxDepth
    /\ \E i \in 1..(Len(stack) - 1) : Has(stack[i].node, "ref")

====
